---- MODULE Spec2Model ----
(***************************************************************************)
(* A model of create_intro_cards.py: the two entry points make_pdf and     *)
(* make_pdf_preview, the paginator _make_figs / _make_fig_preview, the     *)
(* card composer _make_card with its photo resolver and shrink loop, and   *)
(* the document assembly at the end of make_pdf.                           *)
(*                                                                         *)
(* Text is a sequence of one-character strings.  Lengths on a card are in  *)
(* thousandths of the card height (0.02 is 20).  A font size is an exact   *)
(* fraction <<num, den>>.                                                  *)
(***************************************************************************)
EXTENDS Integers, Sequences, FiniteSets, TLC

VARIABLES
    fn,                     \* the entry point invoked: "make_pdf" or "make_pdf_preview"
    people_data,            \* the DataFrame argument: [columns, rows]
    path_to_default_photo,  \* the default photo argument
    desc_padding,           \* the desc_padding argument, in thousandths
    dir,                    \* the output directory: "absent", "uncreatable", "present"
                            \* or "unwritable" (it exists, no file can be created in it)
    files,                  \* the *.png files of the output directory: name -> content
    pc,                     \* the position of the run
    exc,                    \* the exception in flight or raised
    handlers,               \* the handlers attached to the module logger
    log,                    \* the lines the logger has emitted during the run
    stats,                  \* the StatsDict of the run
    df,                     \* people_data as formatted inside _make_figs
    i,                      \* the batch loop index of _make_figs
    start_ind,              \* first row of the current batch
    end_ind,                \* one past the last row of the current batch
    fig,                    \* the cards drawn on the current figure
    card,                   \* the locals of the running _make_card call
    shown,                  \* the figure shown by plt.show in the preview
    pdf,                    \* the pages of intro_cards.pdf
    result                  \* the value the entry point returned

vars == <<fn, people_data, path_to_default_photo, desc_padding, dir, files, pc, exc,
          handlers, log, stats, df, i, start_ind, end_ind, fig, card, shown, pdf,
          result>>

----------------------------------------------------------------------------
(* Bounds of the model.                                                    *)

MaxRecords == 40        \* largest record count of the roster datasets
MaxPhotoRecords == 4    \* largest record count with every photo assignment
MaxShrink == 4          \* cap on the iterations of the shrink loop
MaxTruncatedRecords == 6 \* largest record count of the datasets with a truncated photo
MaxNameLen == 3         \* longest custom column name given to the sanitizer alone
MaxValueLen == 3        \* longest cell value given to the sanitizer alone
MaxFullNameRecords == 5 \* largest record count of the datasets with a Full Name column

----------------------------------------------------------------------------
(* Text.                                                                   *)

DigitChars == <<"0", "1", "2", "3", "4", "5", "6", "7", "8", "9">>

IsDigit(c) == \E d \in 1..10 : DigitChars[d] = c

DigitVal(c) == (CHOOSE d \in 1..10 : DigitChars[d] = c) - 1

\* str(n) for a natural number n, as f"{n}" formats it
RECURSIVE Str(_)
Str(n) == IF n < 10 THEN <<DigitChars[n + 1]>>
          ELSE Str(n \div 10) \o <<DigitChars[(n % 10) + 1]>>

\* int(ds) for a sequence of decimal digits
RECURSIVE ParseInt(_)
ParseInt(ds) == IF ds = <<>> THEN 0
           ELSE 10 * ParseInt(SubSeq(ds, 1, Len(ds) - 1)) + DigitVal(ds[Len(ds)])

IsSpace(c) == c \in {" ", "\t", "\n"}

RECURSIVE LStrip(_)
LStrip(s) == IF s # <<>> /\ IsSpace(Head(s)) THEN LStrip(Tail(s)) ELSE s

RECURSIVE RStrip(_)
RStrip(s) == IF s # <<>> /\ IsSpace(s[Len(s)])
             THEN RStrip(SubSeq(s, 1, Len(s) - 1)) ELSE s

\* str.strip()
Strip(s) == RStrip(LStrip(s))

\* a null cell of the DataFrame (NaN / None)
NaN == <<"NaN">>

\* the cell conversion of df.fillna("").astype(str).apply(str.strip)
FormatCell(v) == IF v = NaN THEN <<>> ELSE Strip(v)

\* Series.str.cat(other, sep=" ").str.strip()
CatStrip(a, b) == Strip(a \o <<" ">> \o b)

----------------------------------------------------------------------------
(* The arguments of a run.                                                 *)

first_name_col == <<" ", "F", "i", "r", "s", "t">>
last_name_col == <<"L", "a", "s", "t", "$">>
photo_path_col == <<"P", "h", "o", "t", "o", "_", "^", " ">>

\* the three required columns, in the order the entry points test them
RequiredCols == <<first_name_col, last_name_col, photo_path_col>>

\* the name of the derived column
FullNameCol == <<"F", "u", "l", "l", " ", "N", "a", "m", "e">>

\* the custom columns of the datasets
CustomCols == << <<"H", "o", "m", "e">>, <<"F", "u", "n", " ", "#", "1">>,
                 <<" ", "P", "e", "t", "_">>, <<"x", "^", "2">> >>

\* path_to_output_dir
OutputDir == <<"o", "u", "t">>

(* The file system.  A path is text; the files below are the ones a photo  *)
(* path of a run can name.                                                 *)
DefaultPhoto == <<"d">>
FoundPhoto == <<"f">>
UnreadablePhoto == <<"u">>
MissingPhoto == <<"m">>
\* an image file with a valid header whose pixel data is cut short
TruncatedPhoto == <<"t">>

\* os.path.exists(path)
PathExists(path) == path \in {DefaultPhoto, FoundPhoto, UnreadablePhoto, TruncatedPhoto}

\* Image.open(path) succeeds (it raises OSError otherwise); it reads the header
\* of the file only
ImageOpens(path) == path \in {DefaultPhoto, FoundPhoto, TruncatedPhoto}

\* imshow can decode the opened image (the decoder raises OSError otherwise)
ImageLoads(path) == path \in {DefaultPhoto, FoundPhoto}

\* the photo cells a dataset can hold: null, blank after trimming, and paths
PhotoCells == {NaN, MissingPhoto, UnreadablePhoto, FoundPhoto}

----------------------------------------------------------------------------
(* Datasets.                                                               *)

\* the photo cell of roster row r
RosterPhoto(r) ==
    CASE r % 5 = 1 -> FoundPhoto
      [] r % 5 = 2 -> MissingPhoto
      [] r % 5 = 3 -> UnreadablePhoto
      [] r % 5 = 4 -> <<" ">>
      [] OTHER     -> NaN

\* row r of a dataset over the columns cols, with photo cell photo
Row(r, cols, photo) ==
    [c \in cols |->
        CASE c = first_name_col -> IF r % 7 = 0 THEN NaN ELSE <<"F">> \o Str(r)
          [] c = last_name_col  -> IF r % 15 = 0 THEN <<"L", "\n">> \o Str(r)
                                   ELSE <<"L">> \o Str(r) \o <<" ">>
          [] c = FullNameCol    -> <<"X", "$">>
          [] c = photo_path_col -> photo
          [] c = CustomCols[1]  -> IF r % 4 >= 1 THEN <<"a">> ELSE NaN
          [] c = CustomCols[2]  -> IF r % 4 >= 2 THEN <<"b">> ELSE <<" ">>
          [] c = CustomCols[3]  -> IF r % 4 >= 3 THEN <<"c">> ELSE <<>>
          [] OTHER              -> IF r % 8 >= 6 THEN <<"$">> ELSE <<>>]

\* the DataFrame with columns cols (a sequence) and the rows of photos
Frame(cols, photos) ==
    [columns |-> cols,
     rows    |-> [r \in 1..Len(photos) |->
                     Row(r, {cols[k] : k \in 1..Len(cols)}, photos[r])]]

\* the sequences over S of length n
SeqsOfLen(S, n) == [1..n -> S]

\* the column lists of the datasets: any of the required columns may be absent
RECURSIVE SelectCols(_, _)
SelectCols(cols, keep) ==
    IF cols = <<>> THEN <<>>
    ELSE (IF Head(cols) \in keep THEN <<Head(cols)>> ELSE <<>>)
         \o SelectCols(Tail(cols), keep)

ColumnLists ==
    { SelectCols(RequiredCols, keep) \o CustomCols :
        keep \in SUBSET {first_name_col, last_name_col, photo_path_col} }

\* the columns of a dataset that has a column named Full Name of its own
FullNameColumns == RequiredCols \o <<CustomCols[1], FullNameCol>> \o Tail(CustomCols)

\* roster datasets of every size, and small datasets with every photo assignment
PhotoLists ==
    { [r \in 1..n |-> RosterPhoto(r)] : n \in 0..MaxRecords }
    \cup UNION { SeqsOfLen(PhotoCells, n) : n \in 0..MaxPhotoRecords }

\* roster datasets where the photo of one record is a truncated image file
TruncatedLists ==
    UNION { { [r \in 1..n |-> IF r = k THEN TruncatedPhoto ELSE RosterPhoto(r)] :
                k \in 1..n } : n \in 1..MaxTruncatedRecords }

----------------------------------------------------------------------------
(* _format_data_and_derive_full_names.                                     *)

\* mutant: only the first occurrence is replaced
RECURSIVE ReplaceFirst(_, _, _)
ReplaceFirst(s, ch, rep) ==
    IF s = <<>> THEN <<>>
    ELSE IF Head(s) = ch THEN rep \o Tail(s)
    ELSE <<Head(s)>> \o ReplaceFirst(Tail(s), ch, rep)

\* str.replace(ch, rep) for a one-character pattern ch
RECURSIVE Replace(_, _, _)
Replace(s, ch, rep) ==
    IF s = <<>> THEN <<>>
    ELSE (IF Head(s) = ch THEN rep ELSE <<Head(s)>>) \o Replace(Tail(s), ch, rep)

\* mutant: the backslash is not among the deleted characters
forbidden_chars_without_backslash == <<"~", "^">>

forbidden_chars_in_col_names == <<"~", "^", "\\">>
prepend_with_backslash_in_col_names == <<" ", "#", "$", "%", "_", "{", "}">>

\* the first loop over a column name: delete each forbidden character in turn
RECURSIVE DeleteChars(_, _)
DeleteChars(s, chars) ==
    IF chars = <<>> THEN s
    ELSE DeleteChars(Replace(s, Head(chars), <<>>), Tail(chars))

\* the second loop: prefix each listed character with a backslash, in turn
RECURSIVE PrependBackslash(_, _)
PrependBackslash(s, chars) ==
    IF chars = <<>> THEN s
    ELSE PrependBackslash(Replace(s, Head(chars), <<"\\", Head(chars)>>), Tail(chars))

\* mutant: the backslashes are prepended before the forbidden characters are deleted
FormattedColEscapeFirst(col) ==
    DeleteChars(PrependBackslash(Strip(col), prepend_with_backslash_in_col_names),
                forbidden_chars_in_col_names)

\* mutant: the column name is not stripped
FormattedColNoStrip(col) ==
    PrependBackslash(DeleteChars(col, forbidden_chars_in_col_names),
                     prepend_with_backslash_in_col_names)

\* formatted_col of a custom column
FormattedCol(col) ==
    PrependBackslash(DeleteChars(Strip(col), forbidden_chars_in_col_names),
                     prepend_with_backslash_in_col_names)

\* mutant: a dollar sign that already follows a backslash is left alone
RECURSIVE EscapeDollarsUnescapedOnly(_)
EscapeDollarsUnescapedOnly(v) ==
    IF v = <<>> THEN <<>>
    ELSE IF Head(v) = "$" THEN <<"\\", "$">> \o EscapeDollarsUnescapedOnly(Tail(v))
    ELSE IF Head(v) = "\\" /\ Len(v) > 1 /\ v[2] = "$"
    THEN <<"\\", "$">> \o EscapeDollarsUnescapedOnly(Tail(Tail(v)))
    ELSE <<Head(v)>> \o EscapeDollarsUnescapedOnly(Tail(v))

\* df[col].str.replace("$", r"\$") on one cell
EscapeDollars(v) == Replace(v, "$", <<"\\", "$">>)

\* mutant: the full name column is not among the distinguished columns
name_and_photo_cols_without_full_name == {first_name_col, last_name_col, photo_path_col}

name_and_photo_cols == {FullNameCol, first_name_col, last_name_col, photo_path_col}

\* mutant: every column name is formatted
NewColumnAll(col) == FormattedCol(col)

\* new_columns[col]
NewColumn(col) == IF col \notin name_and_photo_cols THEN FormattedCol(col) ELSE col

\* the elements of a sequence
Range(q) == {q[k] : k \in 1..Len(q)}

\* the DataFrame _format_data_and_derive_full_names returns for f; the
\* required columns are present when it is called
FormatFrame(f) ==
    LET cols0 == IF FullNameCol \in Range(f.columns) THEN f.columns
                 ELSE Append(f.columns, FullNameCol)
        cell(r, c) ==
            IF c = FullNameCol
            THEN CatStrip(FormatCell(f.rows[r][first_name_col]),
                          FormatCell(f.rows[r][last_name_col]))
            ELSE IF c \in name_and_photo_cols THEN FormatCell(f.rows[r][c])
            ELSE EscapeDollars(FormatCell(f.rows[r][c]))
        old(c2) == CHOOSE k \in 1..Len(cols0) : NewColumn(cols0[k]) = c2
        cols1 == [k \in 1..Len(cols0) |-> NewColumn(cols0[k])]
    IN  [columns |-> cols1,
         rows    |-> [r \in 1..Len(f.rows) |->
                         [c2 \in Range(cols1) |-> cell(r, cols0[old(c2)])]]]

----------------------------------------------------------------------------
(* _get_description_string_from_row.                                       *)

\* mutant: an attribute with a blank value is listed too
RECURSIVE DescComponentsKeepBlank(_, _)
DescComponentsKeepBlank(row, cols) ==
    IF cols = <<>> THEN <<>>
    ELSE (IF Head(cols) \notin name_and_photo_cols
          THEN << <<"$">> \o Head(cols) \o <<":", "$", " ">> \o row[Head(cols)] >>
          ELSE <<>>)
         \o DescComponentsKeepBlank(row, Tail(cols))

\* the components of the description of a row over the columns cols
RECURSIVE DescComponents(_, _)
DescComponents(row, cols) ==
    IF cols = <<>> THEN <<>>
    ELSE (IF Head(cols) \notin name_and_photo_cols /\ row[Head(cols)] # <<>>
          THEN << <<"$">> \o Head(cols) \o <<":", "$", " ">> \o row[Head(cols)] >>
          ELSE <<>>)
         \o DescComponents(row, Tail(cols))

\* "\n".join(components)
RECURSIVE JoinLines(_)
JoinLines(parts) ==
    IF parts = <<>> THEN <<>>
    ELSE IF Len(parts) = 1 THEN parts[1]
    ELSE parts[1] \o <<"\n">> \o JoinLines(Tail(parts))

DescriptionString(row, cols) == JoinLines(DescComponents(row, cols))

----------------------------------------------------------------------------
(* The text boxes of a card.  The renderer's measure of a text box is      *)
(* synthetic: a box is as high as its lines are many, each line in         *)
(* proportion to the font size.                                            *)

\* the number of lines of a text: one more than its line breaks, none if empty
NumLines(text) ==
    IF text = <<>> THEN 0
    ELSE 1 + Cardinality({k \in 1..Len(text) : text[k] = "\n"})

RECURSIVE Gcd(_, _)
Gcd(a, b) == IF b = 0 THEN a ELSE Gcd(b, a % b)

\* a fraction in lowest terms
Frac(num, den) == LET g == Gcd(num, den) IN <<num \div g, den \div g>>

\* mutant: desc_font_size * 0.9
ShrunkNinety(font) == Frac(font[1] * 9, font[2] * 10)

\* desc_font_size * 0.95
Shrunk(font) == Frac(font[1] * 19, font[2] * 20)

\* the layout arguments at their defaults: 0.95, 50 and 16
name_y_coord == 950
name_font_size == 50
desc_font_size == 16

\* the values of desc_padding: the default 0.05; 0.622, with which a one-line
\* description under a one-line name ends at the 0.02 floor; and 0.83, which
\* puts the description of a card with a one-line name at the 0.02 floor
DescPaddings == {50, 622, 830}

\* mutant: the padding is taken from the anchor of the name, not from the lower
\* edge of its box
DescY1FromAnchor(name) == name_y_coord - desc_padding

\* desc_y1_coord: the lower edge of the name box less the padding
DescY1(name) == (name_y_coord - NumLines(name) * name_font_size * 2) - desc_padding

\* mutant: the layout is accepted only strictly above the floor
DescFitsStrict(y1, text, font) == (y1 - 20) * font[2] > NumLines(text) * 13 * font[1]

\* desc_text_bbox_ax_coords.y0 >= 0.02 for the description laid out from y1
\* at the font size font
DescFits(y1, text, font) == (y1 - 20) * font[2] >= NumLines(text) * 13 * font[1]

----------------------------------------------------------------------------
(* The output directory and the document assembly.                         *)

FigureStem == <<"f", "i", "g", "u", "r", "e">>
PngExt == <<".", "p", "n", "g">>

\* f"figure{k}.png"
FigureName(k) == FigureStem \o Str(k) \o PngExt

\* os.path.join(path_to_output_dir, name)
JoinPath(d, name) == d \o <<"/">> \o name

\* the end of the run of digits of x that starts at position p (p - 1 if none)
RECURSIVE DigitsEnd(_, _)
DigitsEnd(x, p) ==
    IF p <= Len(x) /\ IsDigit(x[p]) THEN DigitsEnd(x, p + 1) ELSE p - 1

\* the positions where figure(\d+)\.png matches in x
FigureMatches(x) ==
    { p \in 1..Len(x) :
        /\ p + 5 <= Len(x)
        /\ SubSeq(x, p, p + 5) = FigureStem
        /\ DigitsEnd(x, p + 6) >= p + 6
        /\ DigitsEnd(x, p + 6) + 4 <= Len(x)
        /\ SubSeq(x, DigitsEnd(x, p + 6) + 1, DigitsEnd(x, p + 6) + 4) = PngExt }

\* re.search(r"figure(\d+)\.png", x) is not None
FigureSearch(x) == FigureMatches(x) # {}

\* int(re.search(r"figure(\d+)\.png", x).group(1))
FigureKey(x) ==
    LET p == CHOOSE q \in FigureMatches(x) : \A q2 \in FigureMatches(x) : q <= q2
    IN  ParseInt(SubSeq(x, p + 6, DigitsEnd(x, p + 6)))

\* sorted(paths, key=FigureKey); paths of equal key keep the order glob gave
RECURSIVE SortedByKey(_)
SortedByKey(paths) ==
    IF paths = {} THEN <<>>
    ELSE LET m == CHOOSE x \in paths : \A y \in paths : FigureKey(x) <= FigureKey(y)
         IN  <<m>> \o SortedByKey(paths \ {m})

\* a page image left in the output directory by something before this run
OldPage == [old |-> TRUE, cards |-> <<>>]

\* the *.png files the output directory can hold before a run
OtherPng == <<"c">> \o PngExt
OldFiles ==
    { [name \in names |-> OldPage] :
        names \in { {}, {FigureName(2)}, {FigureName(11)}, {OtherPng},
                    {FigureName(2), FigureName(11)} } }

----------------------------------------------------------------------------
(* Exceptions, log lines, stats.                                           *)

NoExc == [type |-> "none", msg |-> "", cols |-> <<>>]

Raise(type, msg, cols) == [type |-> type, msg |-> msg, cols |-> cols]

\* a line given to logger.info / logger.error
Line(level, msg) ==
    [level |-> level, progress |-> <<0, 0>>, status |-> "", name |-> <<>>,
     msg |-> msg, path |-> <<>>, names |-> <<>>]

\* mutant: the index of the status line is the count of cards already created
PersonLineZeroBased(created, total, status, name, msg, path) ==
    [level |-> "INFO", progress |-> <<created, total>>, status |-> status,
     name |-> name, msg |-> msg, path |-> path, names |-> <<>>]

\* person_logging_message
PersonLine(created, total, status, name, msg, path) ==
    [level |-> "INFO", progress |-> <<created + 1, total>>, status |-> status,
     name |-> name, msg |-> msg, path |-> path, names |-> <<>>]

\* "\n".join(stats["people_with_photo_warnings"])
NamesLine(names) ==
    [level |-> "INFO", progress |-> <<0, 0>>, status |-> "", name |-> <<>>,
     msg |-> "", path |-> <<>>, names |-> names]

\* the logger emits a line to its handlers
Emit(lines) == IF handlers = {} THEN log ELSE log \o lines

NoStats ==
    [number_of_cards_created |-> 0, number_of_cards_to_create |-> 0,
     people_with_photo_warnings |-> <<>>]

NoFrame == [columns |-> <<>>, rows |-> <<>>]

NoCard ==
    [row |-> 0, name |-> <<>>, desc |-> <<>>, desc_y1_coord |-> 0,
     desc_font_size |-> <<0, 1>>, person_status |-> "", person_status_msg |-> "",
     msg_path |-> <<>>, img_to_open |-> <<>>, attempt |-> 0]

\* mutant: floor division, dividend // divisor
CeilDivFloor(dividend, divisor) == dividend \div divisor

\* mutant: dividend // divisor + 1
CeilDivPlusOne(dividend, divisor) == (dividend \div divisor) + 1

\* -(dividend // -divisor); // is floor division
CeilDiv(dividend, divisor) == -((-dividend) \div divisor)

\* mutant: the first argument, whatever the second is
MinIsFirst(a, b) == a

\* min(a, b)
Min(a, b) == IF a <= b THEN a ELSE b

\* mutant: a photo that exists is used without being opened
PhotoOutcomeNoReadCheck(photo_path, default) ==
    IF photo_path # <<>>
    THEN IF ~PathExists(photo_path)
         THEN [person_status |-> "WARNING",
               person_status_msg |-> "Photo path provided but photo not found; default used",
               msg_path |-> <<>>, warning |-> TRUE, img_to_open |-> default]
         ELSE [person_status |-> "SUCCESS",
               person_status_msg |-> "Photo path provided and photo read",
               msg_path |-> <<>>, warning |-> FALSE, img_to_open |-> photo_path]
    ELSE [person_status |-> "SUCCESS",
          person_status_msg |-> "No photo path provided",
          msg_path |-> <<>>, warning |-> FALSE, img_to_open |-> default]

\* mutant: the except branch does not append the name
PhotoOutcomeNoAppendUnreadable(photo_path, default) ==
    IF photo_path # <<>>
    THEN IF ~PathExists(photo_path)
         THEN [person_status |-> "WARNING",
               person_status_msg |-> "Photo path provided but photo not found; default used",
               msg_path |-> <<>>, warning |-> TRUE, img_to_open |-> default]
         ELSE IF ImageOpens(photo_path)
         THEN [person_status |-> "SUCCESS",
               person_status_msg |-> "Photo path provided and photo read",
               msg_path |-> <<>>, warning |-> FALSE, img_to_open |-> photo_path]
         ELSE [person_status |-> "WARNING",
               person_status_msg |-> "Could not read photo at <path>; default used",
               msg_path |-> photo_path, warning |-> FALSE, img_to_open |-> default]
    ELSE [person_status |-> "SUCCESS",
          person_status_msg |-> "No photo path provided",
          msg_path |-> <<>>, warning |-> FALSE, img_to_open |-> default]

\* the photo resolver of _make_card: the outcome for the photo cell of a row
PhotoOutcome(photo_path, default) ==
    IF photo_path # <<>>
    THEN IF ~PathExists(photo_path)
         THEN [person_status |-> "WARNING",
               person_status_msg |-> "Photo path provided but photo not found; default used",
               msg_path |-> <<>>, warning |-> TRUE, img_to_open |-> default]
         ELSE IF ImageOpens(photo_path)
         THEN [person_status |-> "SUCCESS",
               person_status_msg |-> "Photo path provided and photo read",
               msg_path |-> <<>>, warning |-> FALSE, img_to_open |-> photo_path]
         ELSE [person_status |-> "WARNING",
               person_status_msg |-> "Could not read photo at <path>; default used",
               msg_path |-> photo_path, warning |-> TRUE, img_to_open |-> default]
    ELSE [person_status |-> "SUCCESS",
          person_status_msg |-> "No photo path provided",
          msg_path |-> <<>>, warning |-> FALSE, img_to_open |-> default]

\* mutant: only the first missing column is reported
RECURSIVE MissingColumnsFirstOnly(_, _)
MissingColumnsFirstOnly(wanted, columns) ==
    IF wanted = <<>> THEN <<>>
    ELSE IF Head(wanted) \notin Range(columns) THEN <<Head(wanted)>>
    ELSE MissingColumnsFirstOnly(Tail(wanted), columns)

\* the columns among first, last and photo that people_data lacks
RECURSIVE MissingColumns(_, _)
MissingColumns(wanted, columns) ==
    IF wanted = <<>> THEN <<>>
    ELSE (IF Head(wanted) \notin Range(columns) THEN <<Head(wanted)>> ELSE <<>>)
         \o MissingColumns(Tail(wanted), columns)

----------------------------------------------------------------------------
(* The initial states: an entry point is about to be called.               *)

args == <<fn, people_data, path_to_default_photo, desc_padding>>

IsRoster(photos) == photos = [r \in 1..Len(photos) |-> RosterPhoto(r)]

NoFiles == [name \in {} |-> OldPage]

Init ==
    /\ fn \in {"make_pdf", "make_pdf_preview"}
    /\ path_to_default_photo \in {DefaultPhoto, MissingPhoto, UnreadablePhoto}
    /\ \E d \in {"absent", "uncreatable", "present", "unwritable"} :
         /\ dir = d
         /\ fn = "make_pdf_preview" => d = "absent"
         /\ IF d = "present" THEN files \in OldFiles ELSE files = NoFiles
    /\ desc_padding \in DescPaddings
    /\ desc_padding = 622 => path_to_default_photo = DefaultPhoto /\ dir = "absent"
    /\ dir = "unwritable" => desc_padding = 50
    /\ \E cols \in ColumnLists \cup {FullNameColumns},
          photos \in PhotoLists \cup TruncatedLists :
         /\ cols = FullNameColumns =>
               /\ IsRoster(photos)
               /\ Len(photos) <= MaxFullNameRecords
               /\ fn = "make_pdf"
               /\ path_to_default_photo = DefaultPhoto
               /\ desc_padding = 50
               /\ dir = "absent"
         \* every photo assignment is tried on make_pdf runs whose arguments are
         \* valid; a truncated photo on runs of either entry point
         /\ \/ IsRoster(photos)
            \/ /\ MissingColumns(RequiredCols, cols) = <<>>
               /\ path_to_default_photo = DefaultPhoto
               /\ desc_padding = 50
               /\ dir = "absent"
               /\ fn = "make_pdf" \/ photos \in TruncatedLists
         \* a dataset that lacks a required column is small
         /\ MissingColumns(RequiredCols, cols) # <<>> => Len(photos) <= MaxPhotoRecords
         /\ people_data = Frame(cols, photos)
    /\ pc = "start"
    /\ exc = NoExc
    /\ handlers = {}
    /\ log = <<>>
    /\ stats = NoStats
    /\ df = NoFrame
    /\ i = 0
    /\ start_ind = 0
    /\ end_ind = 0
    /\ fig = <<>>
    /\ card = NoCard
    /\ shown = <<>>
    /\ pdf = <<>>
    /\ result = NoStats

----------------------------------------------------------------------------
(* make_pdf and make_pdf_preview: the checks before the run.               *)

\* if not os.path.exists(path_to_default_photo): raise OSError
CheckDefaultPhotoExists ==
    /\ pc = "start"
    /\ IF ~PathExists(path_to_default_photo)
       THEN /\ exc' = Raise("OSError", "No photo exists at the specified default photo path",
                            <<>>)
            /\ pc' = "raised"
       ELSE /\ pc' = "open_default"
            /\ UNCHANGED exc
    /\ UNCHANGED <<args, dir, files, handlers, log, stats, df, i, start_ind, end_ind,
                   fig, card, shown, pdf, result>>

\* mutant: the default photo is not opened before the run
CheckDefaultPhotoReadableSkipped ==
    /\ pc = "open_default"
    /\ pc' = IF fn = "make_pdf" THEN "make_dir" ELSE "check_columns"
    /\ UNCHANGED <<args, dir, files, exc, handlers, log, stats, df, i, start_ind, end_ind,
                   fig, card, shown, pdf, result>>

\* try: Image.open(path_to_default_photo) except OSError: raise OSError
CheckDefaultPhotoReadable ==
    /\ pc = "open_default"
    /\ IF ~ImageOpens(path_to_default_photo)
       THEN /\ exc' = Raise("OSError", "Could not read the default photo", <<>>)
            /\ pc' = "raised"
       ELSE /\ pc' = IF fn = "make_pdf" THEN "make_dir" ELSE "check_columns"
            /\ UNCHANGED exc
    /\ UNCHANGED <<args, dir, files, handlers, log, stats, df, i, start_ind, end_ind,
                   fig, card, shown, pdf, result>>

\* mutant: the output directory is not created before the columns are checked
EnsureOutputDirSkipped ==
    /\ pc = "make_dir"
    /\ pc' = "check_columns"
    /\ UNCHANGED <<args, dir, files, exc, handlers, log, stats, df, i, start_ind, end_ind,
                   fig, card, shown, pdf, result>>

\* if not os.path.exists(path_to_output_dir): os.makedirs(path_to_output_dir)
EnsureOutputDir ==
    /\ pc = "make_dir"
    /\ IF dir = "uncreatable"
       THEN /\ exc' = Raise("OSError", "Failed to create directory", <<>>)
            /\ pc' = "raised"
            /\ UNCHANGED dir
       ELSE /\ dir' = IF dir = "absent" THEN "present" ELSE dir
            /\ pc' = "check_columns"
            /\ UNCHANGED exc
    /\ UNCHANGED <<args, files, handlers, log, stats, df, i, start_ind, end_ind,
                   fig, card, shown, pdf, result>>

\* missing_columns = [...]; if missing_columns: raise ValueError
CheckColumns ==
    /\ pc = "check_columns"
    /\ LET missing_columns == MissingColumns(RequiredCols, people_data.columns)
       IN  IF missing_columns # <<>>
           THEN /\ exc' = Raise("ValueError",
                                "The following columns are not in people_data",
                                missing_columns)
                /\ pc' = "raised"
           ELSE /\ pc' = "attach"
                /\ UNCHANGED exc
    /\ UNCHANGED <<args, dir, files, handlers, log, stats, df, i, start_ind, end_ind,
                   fig, card, shown, pdf, result>>

\* the stream handler is added to the logger; make_pdf then opens the log file
\* in the output directory for the file handler (logging.FileHandler raises
\* OSError if it cannot) and adds it; then the StatsDict is created
AttachHandlers ==
    /\ pc = "attach"
    /\ IF fn = "make_pdf" /\ dir = "unwritable"
       THEN /\ handlers' = {"stream"}
            /\ exc' = Raise("OSError", "Permission denied", <<>>)
            /\ pc' = "raised"
            /\ UNCHANGED stats
       ELSE /\ handlers' = IF fn = "make_pdf" THEN {"stream", "file"} ELSE {"stream"}
            /\ stats' = [number_of_cards_created |-> 0,
                         number_of_cards_to_create |->
                             IF fn = "make_pdf" THEN Len(people_data.rows)
                             ELSE Min(Len(people_data.rows), 4),
                         people_with_photo_warnings |-> <<>>]
            /\ pc' = "format"
            /\ UNCHANGED exc
    /\ UNCHANGED <<args, dir, files, log, df, i, start_ind, end_ind,
                   fig, card, shown, pdf, result>>

----------------------------------------------------------------------------
(* _make_figs and _make_fig_preview.                                       *)

\* people_data = _format_data_and_derive_full_names(...)
FormatData ==
    /\ pc = "format"
    /\ df' = FormatFrame(people_data)
    /\ i' = 0
    /\ start_ind' = 0
    /\ pc' = "loop"
    /\ UNCHANGED <<args, dir, files, exc, handlers, log, stats, end_ind,
                   fig, card, shown, pdf, result>>

\* for i in np.arange(_ceil_div(people_data.shape[0], 4)): a new figure
NextBatch ==
    /\ pc = "loop"
    /\ fn = "make_pdf"
    /\ IF i < CeilDiv(Len(df.rows), 4)
       THEN /\ end_ind' = IF start_ind + 4 <= Len(df.rows) THEN start_ind + 4
                          ELSE Len(df.rows)
            /\ fig' = <<>>
            /\ pc' = "rows"
       ELSE /\ pc' = "assemble"
            /\ UNCHANGED <<end_ind, fig>>
    /\ UNCHANGED <<args, dir, files, exc, handlers, log, stats, df, i, start_ind,
                   card, shown, pdf, result>>

\* the single figure of the preview: end_ind = min(people_data.shape[0], 4)
PreviewFigure ==
    /\ pc = "loop"
    /\ fn = "make_pdf_preview"
    /\ end_ind' = Min(Len(df.rows), 4)
    /\ fig' = <<>>
    /\ pc' = "rows"
    /\ UNCHANGED <<args, dir, files, exc, handlers, log, stats, df, i, start_ind,
                   card, shown, pdf, result>>

\* for row, ax in zip(people_data.iloc[start_ind:end_ind].iterrows(), axs.ravel()):
\* _make_card is called on the next row of the batch, if any
NextRow ==
    /\ pc = "rows"
    /\ IF start_ind + Len(fig) < end_ind /\ Len(fig) < 4
       THEN /\ card' = [NoCard EXCEPT !.row = start_ind + Len(fig) + 1,
                                      !.desc_font_size = <<desc_font_size, 1>>]
            /\ pc' = "name"
       ELSE /\ pc' = IF fn = "make_pdf" THEN "savefig" ELSE "show"
            /\ UNCHANGED card
    /\ UNCHANGED <<args, dir, files, exc, handlers, log, stats, df, i, start_ind,
                   end_ind, fig, shown, pdf, result>>

----------------------------------------------------------------------------
(* _make_card.                                                             *)

\* the name is laid out; desc_y1_coord = name_text_bbox_ax_coords.y0 - desc_padding
LayoutName ==
    /\ pc = "name"
    /\ LET name == df.rows[card.row][FullNameCol]
       IN  card' = [card EXCEPT !.name = name, !.desc_y1_coord = DescY1(name)]
    /\ pc' = "desc"
    /\ UNCHANGED <<args, dir, files, exc, handlers, log, stats, df, i, start_ind,
                   end_ind, fig, shown, pdf, result>>

\* one iteration of the while True loop: lay the description out; break if it
\* clears the floor, else remove it and reduce the font size
LayoutDescription ==
    /\ pc = "desc"
    /\ LET text == DescriptionString(df.rows[card.row], df.columns)
       IN  IF DescFits(card.desc_y1_coord, text, card.desc_font_size)
           THEN /\ card' = [card EXCEPT !.desc = text]
                /\ pc' = "photo"
           ELSE /\ card.attempt < MaxShrink
                /\ card' = [card EXCEPT !.desc_font_size = Shrunk(@),
                                        !.attempt = @ + 1]
                /\ pc' = "desc"
    /\ UNCHANGED <<args, dir, files, exc, handlers, log, stats, df, i, start_ind,
                   end_ind, fig, shown, pdf, result>>

\* mutant: the name is inserted at the front of the list
ResolvePhotoPrepend ==
    /\ pc = "photo"
    /\ LET o == PhotoOutcome(df.rows[card.row][photo_path_col], path_to_default_photo)
       IN  /\ card' = [card EXCEPT !.person_status = o.person_status,
                                   !.person_status_msg = o.person_status_msg,
                                   !.msg_path = o.msg_path,
                                   !.img_to_open = o.img_to_open]
           /\ stats' = IF o.warning
                       THEN [stats EXCEPT !.people_with_photo_warnings =
                                              <<df.rows[card.row][FullNameCol]>> \o @]
                       ELSE stats
    /\ pc' = "draw"
    /\ UNCHANGED <<args, dir, files, exc, handlers, log, df, i, start_ind,
                   end_ind, fig, shown, pdf, result>>

\* mutant: the list is replaced by the one name
ResolvePhotoReplacesList ==
    /\ pc = "photo"
    /\ LET o == PhotoOutcome(df.rows[card.row][photo_path_col], path_to_default_photo)
       IN  /\ card' = [card EXCEPT !.person_status = o.person_status,
                                   !.person_status_msg = o.person_status_msg,
                                   !.msg_path = o.msg_path,
                                   !.img_to_open = o.img_to_open]
           /\ stats' = IF o.warning
                       THEN [stats EXCEPT !.people_with_photo_warnings =
                                              <<df.rows[card.row][FullNameCol]>>]
                       ELSE stats
    /\ pc' = "draw"
    /\ UNCHANGED <<args, dir, files, exc, handlers, log, df, i, start_ind,
                   end_ind, fig, shown, pdf, result>>

\* if not row[photo_path_col] == "": ... else: ...
ResolvePhoto ==
    /\ pc = "photo"
    /\ LET o == PhotoOutcome(df.rows[card.row][photo_path_col], path_to_default_photo)
       IN  /\ card' = [card EXCEPT !.person_status = o.person_status,
                                   !.person_status_msg = o.person_status_msg,
                                   !.msg_path = o.msg_path,
                                   !.img_to_open = o.img_to_open]
           /\ stats' = IF o.warning
                       THEN [stats EXCEPT !.people_with_photo_warnings =
                                              Append(@, df.rows[card.row][FullNameCol])]
                       ELSE stats
    /\ pc' = "draw"
    /\ UNCHANGED <<args, dir, files, exc, handlers, log, df, i, start_ind,
                   end_ind, fig, shown, pdf, result>>

\* ax_inset.imshow(Image.open(img_to_open)): the photo is decoded and drawn on
\* the card, outside any try; then the status line is logged
DrawAndLog ==
    /\ pc = "draw"
    /\ IF ~ImageLoads(card.img_to_open)
       THEN /\ exc' = Raise("OSError", "image file is truncated", <<>>)
            /\ pc' = "except"
            /\ UNCHANGED <<fig, log>>
       ELSE /\ fig' = Append(fig, [row |-> card.row, name |-> card.name,
                                   desc |-> card.desc,
                                   desc_font_size |-> card.desc_font_size,
                                   photo |-> card.img_to_open])
            /\ log' = Emit(<<PersonLine(stats.number_of_cards_created,
                                        stats.number_of_cards_to_create,
                                        card.person_status,
                                        df.rows[card.row][FullNameCol],
                                        card.person_status_msg, card.msg_path)>>)
            /\ pc' = "count"
            /\ UNCHANGED exc
    /\ UNCHANGED <<args, dir, files, handlers, stats, df, i, start_ind,
                   end_ind, card, shown, pdf, result>>

\* mutant: the counter is incremented twice
CountCardTwice ==
    /\ pc = "count"
    /\ stats' = [stats EXCEPT !.number_of_cards_created = @ + 2]
    /\ card' = NoCard
    /\ pc' = "rows"
    /\ UNCHANGED <<args, dir, files, exc, handlers, log, df, i, start_ind,
                   end_ind, fig, shown, pdf, result>>

\* stats["number_of_cards_created"] += 1, and _make_card returns
CountCard ==
    /\ pc = "count"
    /\ stats' = [stats EXCEPT !.number_of_cards_created = @ + 1]
    /\ card' = NoCard
    /\ pc' = "rows"
    /\ UNCHANGED <<args, dir, files, exc, handlers, log, df, i, start_ind,
                   end_ind, fig, shown, pdf, result>>

\* mutant: the page is saved under the 0-based index, f"figure{i}.png"
SaveFigureZeroBased ==
    /\ pc = "savefig"
    /\ files' = [name \in DOMAIN files \cup {FigureName(i)} |->
                    IF name = FigureName(i) THEN [old |-> FALSE, cards |-> fig]
                    ELSE files[name]]
    /\ fig' = <<>>
    /\ start_ind' = start_ind + 4
    /\ i' = i + 1
    /\ pc' = "loop"
    /\ UNCHANGED <<args, dir, exc, handlers, log, stats, df, end_ind, card, shown,
                   pdf, result>>

\* mutant: start_ind is not advanced after the page is saved
SaveFigureKeepsStart ==
    /\ pc = "savefig"
    /\ files' = [name \in DOMAIN files \cup {FigureName(i + 1)} |->
                    IF name = FigureName(i + 1) THEN [old |-> FALSE, cards |-> fig]
                    ELSE files[name]]
    /\ fig' = <<>>
    /\ i' = i + 1
    /\ pc' = "loop"
    /\ UNCHANGED <<args, dir, exc, handlers, log, stats, df, start_ind, end_ind,
                   card, shown, pdf, result>>

\* fig.savefig(f"figure{i + 1}.png"); plt.close(fig); start_ind += 4
SaveFigure ==
    /\ pc = "savefig"
    /\ files' = [name \in DOMAIN files \cup {FigureName(i + 1)} |->
                    IF name = FigureName(i + 1) THEN [old |-> FALSE, cards |-> fig]
                    ELSE files[name]]
    /\ fig' = <<>>
    /\ start_ind' = start_ind + 4
    /\ i' = i + 1
    /\ pc' = "loop"
    /\ UNCHANGED <<args, dir, exc, handlers, log, stats, df, end_ind, card, shown,
                   pdf, result>>

\* plt.show()
ShowPreview ==
    /\ pc = "show"
    /\ shown' = fig
    /\ pc' = "summary"
    /\ UNCHANGED <<args, dir, files, exc, handlers, log, stats, df, i, start_ind,
                   end_ind, fig, card, pdf, result>>

----------------------------------------------------------------------------
(* The end of make_pdf and make_pdf_preview.                               *)

\* the page of the output directory at a path glob returned
PageAt(path) == files[CHOOSE name \in DOMAIN files : JoinPath(OutputDir, name) = path]

\* glob the *.png files, sort them by figure index, save them as one PDF
Assemble ==
    /\ pc = "assemble"
    /\ LET figure_image_paths == {JoinPath(OutputDir, name) : name \in DOMAIN files}
           sorted_figure_image_paths == SortedByKey(figure_image_paths)
       IN  IF \E x \in figure_image_paths : ~FigureSearch(x)
           THEN /\ exc' = Raise("AttributeError", "NoneType object has no attribute group",
                                <<>>)
                /\ pc' = "except"
                /\ UNCHANGED pdf
           ELSE IF figure_image_paths = {}
           THEN /\ exc' = Raise("IndexError", "list index out of range", <<>>)
                /\ pc' = "except"
                /\ UNCHANGED pdf
           ELSE /\ pdf' = [k \in 1..Len(sorted_figure_image_paths) |->
                              PageAt(sorted_figure_image_paths[k])]
                /\ pc' = "summary"
                /\ UNCHANGED exc
    /\ UNCHANGED <<args, dir, files, handlers, log, stats, df, i, start_ind,
                   end_ind, fig, card, shown, result>>

\* the closing messages, then return stats
LogSummary ==
    /\ pc = "summary"
    /\ log' = Emit((IF fn = "make_pdf" THEN <<Line("INFO", "Complete!")>> ELSE <<>>)
                   \o (IF stats.people_with_photo_warnings # <<>>
                       THEN <<Line("INFO", "WARNING: Photos could not be found"),
                              NamesLine(stats.people_with_photo_warnings)>>
                       ELSE <<>>))
    /\ pc' = "finally"
    /\ UNCHANGED <<args, dir, files, exc, handlers, stats, df, i, start_ind,
                   end_ind, fig, card, shown, pdf, result>>

\* except Exception as e: logger.error(e); raise
Except ==
    /\ pc = "except"
    /\ log' = Emit(<<Line("ERROR", exc.msg)>>)
    /\ pc' = "finally"
    /\ UNCHANGED <<args, dir, files, exc, handlers, stats, df, i, start_ind,
                   end_ind, fig, card, shown, pdf, result>>

\* finally: the handlers are removed; the call returns stats or raises
Finally ==
    /\ pc = "finally"
    /\ handlers' = {}
    /\ IF exc = NoExc
       THEN /\ result' = stats
            /\ pc' = "returned"
       ELSE /\ pc' = "raised"
            /\ UNCHANGED result
    /\ UNCHANGED <<args, dir, files, exc, log, stats, df, i, start_ind,
                   end_ind, fig, card, shown, pdf>>

----------------------------------------------------------------------------

Next ==
    \/ CheckDefaultPhotoExists
    \/ CheckDefaultPhotoReadable
    \/ EnsureOutputDir
    \/ CheckColumns
    \/ AttachHandlers
    \/ FormatData
    \/ NextBatch
    \/ PreviewFigure
    \/ NextRow
    \/ LayoutName
    \/ LayoutDescription
    \/ ResolvePhoto
    \/ DrawAndLog
    \/ CountCard
    \/ SaveFigure
    \/ ShowPreview
    \/ Assemble
    \/ LogSummary
    \/ Except
    \/ Finally

Spec == Init /\ [][Next]_vars

----------------------------------------------------------------------------
(* The sanitizer alone: _format_data_and_derive_full_names is called on a  *)
(* DataFrame of one record, and then on its own result.                    *)

\* the characters of the custom column names and of the cell values
NameChars == {"a", " ", "~", "^", "\\", "#", "$", "%", "_", "{", "}"}
ValueChars == {"a", " ", "$", "\\", "#", "^"}

\* the texts over chars of length at most n
TextsUpTo(chars, n) == UNION { SeqsOfLen(chars, k) : k \in 0..n }

\* the column names and the value of the tests and of the docstring
HobbyCol == <<"H", "o", "b", "b", "y", " ", "#", "1">>
SalaryCol == <<"S", "a", "l", "a", "r", "y", " ", "{", "(", "$", ")", "}">>
InterestsCol == <<"I", "n", "t", "e", "r", "e", "\\", "s", "t", "s">>
HometownCol == <<" ", "H", "o", "m", "e", "t", "o", "w", "n", " ">>
EarnsValue == <<"E", "a", "r", "n", "s", " ", "$", "$", "$">>

SanitizerNames ==
    TextsUpTo(NameChars, MaxNameLen) \cup {HobbyCol, SalaryCol, InterestsCol, HometownCol}

SanitizerValues == TextsUpTo(ValueChars, MaxValueLen) \cup {NaN, EarnsValue}

\* a DataFrame of one record: the custom column col holds w, the first name
\* and the photo path hold v
SanitizerFrame(col, v, w) ==
    [columns |-> <<first_name_col, col, last_name_col, photo_path_col>>,
     rows    |-> << [c \in {first_name_col, col, last_name_col, photo_path_col} |->
                       CASE c = first_name_col -> v
                         [] c = last_name_col  -> <<" ", "D", "#", "_">>
                         [] c = photo_path_col -> v
                         [] OTHER              -> w] >>]

SanitizerInit ==
    /\ fn = "_format_data_and_derive_full_names"
    /\ people_data \in
           { SanitizerFrame(col, <<"J", "$", " ">>, <<"$">>) : col \in SanitizerNames }
           \cup { SanitizerFrame(<<"a">>, v, v) : v \in SanitizerValues }
    /\ path_to_default_photo = DefaultPhoto
    /\ desc_padding = 50
    /\ dir = "absent"
    /\ files = NoFiles
    /\ pc = "call"
    /\ exc = NoExc
    /\ handlers = {}
    /\ log = <<>>
    /\ stats = NoStats
    /\ df = NoFrame
    /\ i = 0
    /\ start_ind = 0
    /\ end_ind = 0
    /\ fig = <<>>
    /\ card = NoCard
    /\ shown = <<>>
    /\ pdf = <<>>
    /\ result = NoStats

\* df = _format_data_and_derive_full_names(people_data, ...)
Sanitize ==
    /\ pc = "call"
    /\ df' = FormatFrame(people_data)
    /\ pc' = "sanitized"
    /\ UNCHANGED <<args, dir, files, exc, handlers, log, stats, i, start_ind, end_ind,
                   fig, card, shown, pdf, result>>

\* the function is called again, on the DataFrame it returned
SanitizeAgain ==
    /\ pc = "sanitized"
    /\ people_data' = df
    /\ df' = FormatFrame(df)
    /\ pc' = "resanitized"
    /\ UNCHANGED <<fn, path_to_default_photo, desc_padding, dir, files, exc, handlers,
                   log, stats, i, start_ind, end_ind, fig, card, shown, pdf, result>>

SanitizerNext ==
    \/ Sanitize
    \/ SanitizeAgain

SanitizerSpec == SanitizerInit /\ [][SanitizerNext]_vars

----------------------------------------------------------------------------
(* What the properties below speak of.                                     *)

NumRecords == Len(people_data.rows)

\* the name of page k of a run
PageName(k) == <<"f", "i", "g", "u", "r", "e">> \o Str(k) \o <<".", "p", "n", "g">>

\* ceiling(n / 4), as the tests compute it
ExpectedBatches == (NumRecords + 3) \div 4

\* the pages this run has written to the output directory
PagesOfRun == {name \in DOMAIN files : ~files[name].old}

\* the cards on the first k pages, in page order
RECURSIVE SavedCards(_)
SavedCards(k) ==
    IF k = 0 THEN <<>>
    ELSE SavedCards(k - 1)
         \o (IF PageName(k) \in DOMAIN files THEN files[PageName(k)].cards ELSE <<>>)

\* the cards composed so far in the run, in the order they were composed
Composed == IF fn = "make_pdf" THEN SavedCards(i) \o fig ELSE fig

\* _make_figs has been entered
Formatted == df # NoFrame

\* the batch loop of make_pdf has ended (no _make_card call was cut short)
BatchesDone ==
    /\ fn = "make_pdf"
    /\ Formatted
    /\ pc \in {"assemble", "summary", "except", "finally", "returned", "raised"}
    /\ card = NoCard

\* the default photo argument exists and can be read
DefaultPhotoValid == PathExists(path_to_default_photo) /\ ImageOpens(path_to_default_photo)

\* the positions of a run before the handlers are attached, and its failure
BeforeRun == {"start", "open_default", "make_dir", "check_columns", "raised"}

\* nothing has been composed, counted, logged or written by the run
NothingComposed ==
    /\ stats = NoStats
    /\ fig = <<>>
    /\ card = NoCard
    /\ log = <<>>
    /\ pdf = <<>>
    /\ shown = <<>>
    /\ PagesOfRun = {}
    /\ ~Formatted

\* the formatted photo cell and the full name of row r
PhotoCell(r) == df.rows[r][photo_path_col]
FullName(r) == df.rows[r][FullNameCol]

\* the rows whose photo outcome has been resolved
ResolvedRows ==
    LET done == Composed
    IN  {done[k].row : k \in 1..Len(done)} \cup (IF pc = "draw" THEN {card.row} ELSE {})

----------------------------------------------------------------------------
(* C1: whenever make_pdf returns for a dataset of n records, the returned  *)
(* stats have number_of_cards_created = n = number_of_cards_to_create, and *)
(* every input record got exactly one completed card.                      *)
C1_EveryRecordHasCard ==
    (fn = "make_pdf" /\ pc = "returned") =>
        /\ result.number_of_cards_created = NumRecords
        /\ result.number_of_cards_to_create = NumRecords
        /\ LET done == Composed
           IN  /\ Len(done) = NumRecords
               /\ \A r \in 1..NumRecords :
                    Cardinality({k \in 1..Len(done) : done[k].row = r}) = 1

C1_Witness ==
    /\ fn = "make_pdf"
    /\ pc = "returned"
    /\ NumRecords = 9
    /\ result.number_of_cards_created = 9

(* C2: in every state of a run of either entry point the number of cards   *)
(* created is at most the number to create, and the counter changes only   *)
(* at the end of a _make_card call, by exactly +1.                         *)
C2_CreatedBoundedAndCounted ==
    /\ [](stats.number_of_cards_created <= stats.number_of_cards_to_create)
    /\ [][IF pc = "count"
          THEN stats'.number_of_cards_created = stats.number_of_cards_created + 1
          ELSE stats'.number_of_cards_created = stats.number_of_cards_created]_vars

C2_Witness ==
    /\ fn = "make_pdf_preview"
    /\ pc = "returned"
    /\ NumRecords > 4
    /\ stats.number_of_cards_created = 4
    /\ stats.number_of_cards_to_create = 4

(* C3: for n records _make_figs composes exactly ceil(n/4) batches (0, 1,  *)
(* 1, 2, 2, 3 for n = 0, 1, 4, 5, 8, 9); every batch but the last holds 4  *)
(* records and the last holds the remainder, which lies in 1..4.           *)
C3_BatchCountAndSizes ==
    BatchesDone =>
        LET K == ExpectedBatches
            last == NumRecords - 4 * (K - 1)
        IN  /\ i = K
            /\ Cardinality(PagesOfRun) = K
            /\ \A nk \in {<<0, 0>>, <<1, 1>>, <<4, 1>>, <<5, 2>>, <<8, 2>>, <<9, 3>>} :
                 NumRecords = nk[1] => Cardinality(PagesOfRun) = nk[2]
            /\ \A k \in 1..K :
                 /\ PageName(k) \in PagesOfRun
                 /\ Len(files[PageName(k)].cards) = IF k < K THEN 4 ELSE last
            /\ K > 0 => last \in 1..4

C3_Witness ==
    /\ BatchesDone
    /\ NumRecords = 9
    /\ Cardinality(PagesOfRun) = 3
    /\ Len(files[PageName(3)].cards) = 1

(* C4: the batches of _make_figs are an order-preserving partition of the  *)
(* records: every record is passed to _make_card exactly once, in input    *)
(* order, and the batch processed i-th (0-based) is saved as page i + 1.   *)
C4_OrderPreservingPartition ==
    (fn = "make_pdf" /\ Formatted) =>
        /\ PagesOfRun = {PageName(k) : k \in 1..i}
        /\ \A k \in 1..i :
             /\ PageName(k) \in DOMAIN files
             /\ LET cards == files[PageName(k)].cards
                IN  /\ Len(cards) = Min(4, NumRecords - 4 * (k - 1))
                    /\ \A j \in 1..Len(cards) : cards[j].row = 4 * (k - 1) + j
        /\ \A j \in 1..Len(fig) : fig[j].row = 4 * i + j
        /\ pc \in {"name", "desc", "photo", "draw"} => card.row = 4 * i + Len(fig) + 1
        /\ pc = "count" => card.row = 4 * i + Len(fig)
        /\ LET done == Composed
           IN  /\ \A k \in 1..Len(done) : done[k].name = FullName(k)
               /\ BatchesDone => Len(done) = NumRecords

C4_Witness ==
    /\ fn = "make_pdf"
    /\ pc = "loop"
    /\ i = 3
    /\ NumRecords = 10
    /\ Len(files[PageName(3)].cards) = 2

(* C5: the page artifacts make_pdf hands to the document assembler are     *)
(* exactly the pages produced by this run, 1..K with K = ceil(n/4), in     *)
(* ascending numeric order, so that the document has exactly K pages.      *)
C5_DocumentIsPagesOfRun ==
    (BatchesDone /\ pc # "assemble") =>
        /\ Len(pdf) = ExpectedBatches
        /\ \A k \in 1..Len(pdf) : pdf[k] = files[PageName(k)] /\ ~pdf[k].old

\* the outcome the resolver's table gives for a formatted photo cell
TableOutcome(path) ==
    CASE path = <<>> ->
           [status |-> "SUCCESS", msg |-> "No photo path provided",
            path |-> <<>>, photo |-> path_to_default_photo]
      [] path # <<>> /\ ~PathExists(path) ->
           [status |-> "WARNING",
            msg |-> "Photo path provided but photo not found; default used",
            path |-> <<>>, photo |-> path_to_default_photo]
      [] path # <<>> /\ PathExists(path) /\ ~ImageOpens(path) ->
           [status |-> "WARNING", msg |-> "Could not read photo at <path>; default used",
            path |-> path, photo |-> path_to_default_photo]
      [] path # <<>> /\ PathExists(path) /\ ImageOpens(path) ->
           [status |-> "SUCCESS", msg |-> "Photo path provided and photo read",
            path |-> <<>>, photo |-> path]

(* C6: for every record the photo resolver reaches the one outcome its     *)
(* (blank, exists, readable) condition determines: the status and message  *)
(* of the record's status line and the photo drawn on its card are those   *)
(* of the table.                                                           *)
C6_PhotoOutcomeByTable ==
    Formatted =>
        /\ pc \in {"draw", "count"} =>
             LET e == TableOutcome(PhotoCell(card.row))
             IN  /\ card.person_status = e.status
                 /\ card.person_status_msg = e.msg
                 /\ card.msg_path = e.path
                 /\ card.img_to_open = e.photo
        /\ LET done == Composed
           IN  \A k \in 1..Len(done) :
                 LET e == TableOutcome(PhotoCell(done[k].row))
                 IN  /\ done[k].photo = e.photo
                     /\ log[k].status = e.status
                     /\ log[k].msg = e.msg
                     /\ log[k].path = e.path
                     /\ log[k].name = FullName(done[k].row)

C6_Witness ==
    /\ pc = "returned"
    /\ LET done == Composed
       IN  /\ Cardinality({log[k].msg : k \in 1..Len(done)}) = 4
           /\ \E k \in 1..Len(done) : done[k].photo = FoundPhoto
           /\ \E k \in 1..Len(done) : log[k].path = UnreadablePhoto

\* the photo of row r is set and is missing or unreadable
IsWarningRow(r) ==
    /\ PhotoCell(r) # <<>>
    /\ ~PathExists(PhotoCell(r)) \/ ~ImageOpens(PhotoCell(r))

\* how often a name is in people_with_photo_warnings
Occurrences(name) ==
    Cardinality({k \in 1..Len(stats.people_with_photo_warnings) :
                    stats.people_with_photo_warnings[k] = name})

(* C7: a record's full name is in people_with_photo_warnings if and only   *)
(* if its photo outcome is missing or unreadable, and then exactly once;   *)
(* the records of the datasets have distinct full names.                   *)
C7_WarningIffMissingOrUnreadable ==
    Formatted =>
        LET resolved == ResolvedRows
        IN  /\ \A r \in 1..NumRecords :
                 Occurrences(FullName(r)) =
                     IF r \in resolved /\ IsWarningRow(r) THEN 1 ELSE 0
            /\ Len(stats.people_with_photo_warnings) =
                   Cardinality({r \in resolved : IsWarningRow(r)})

C7_Witness ==
    /\ pc = "returned"
    /\ NumRecords = MaxPhotoRecords
    /\ \E r \in 1..NumRecords : PhotoCell(r) = MissingPhoto
    /\ \E r \in 1..NumRecords : PhotoCell(r) = UnreadablePhoto
    /\ \E r \in 1..NumRecords : PhotoCell(r) = FoundPhoto
    /\ \E r \in 1..NumRecords : PhotoCell(r) = <<>>
    /\ Len(stats.people_with_photo_warnings) = 2

\* the row a name of the warning list belongs to
RowOf(name) == CHOOSE r \in 1..NumRecords : FullName(r) = name

(* C8: the names of people_with_photo_warnings are in the order their      *)
(* records were processed, the input order.                                *)
C8_WarningsInInputOrder ==
    Formatted =>
        \A j, k \in 1..Len(stats.people_with_photo_warnings) :
            j < k => RowOf(stats.people_with_photo_warnings[j])
                         < RowOf(stats.people_with_photo_warnings[k])

C8_Witness ==
    /\ pc = "returned"
    /\ Len(stats.people_with_photo_warnings) = 3
    /\ NumRecords = 3
    /\ PhotoCell(1) = UnreadablePhoto
    /\ PhotoCell(2) = MissingPhoto

(* C9: if the default photo does not exist or cannot be read, make_pdf and *)
(* make_pdf_preview fail with an OSError before any card is composed: no   *)
(* _make_card call, no stats, no page artifact.                            *)
C9_InvalidDefaultPhotoFailsFirst ==
    ~DefaultPhotoValid =>
        /\ pc \in {"start", "open_default", "raised"}
        /\ pc = "raised" => exc.type = "OSError"
        /\ pc # "raised" => exc = NoExc
        /\ NothingComposed
        /\ handlers = {}

C9_Witness ==
    /\ pc = "raised"
    /\ exc.type = "OSError"
    /\ path_to_default_photo = UnreadablePhoto
    /\ NumRecords > 0

\* the required columns people_data lacks, in the order first, last, photo
ExpectedMissing ==
    SelectSeq(RequiredCols, LAMBDA c : c \notin Range(people_data.columns))

(* C10, as stated: if any of the three required columns is absent, the     *)
(* entry points fail with a ValueError that lists every missing column, in *)
(* the order first, last, photo, and no card is composed.                  *)
C10_MissingColumnsValueError ==
    ExpectedMissing # <<>> =>
        /\ pc \in BeforeRun
        /\ pc = "raised" => exc.type = "ValueError" /\ exc.cols = ExpectedMissing
        /\ NothingComposed

(* C10, amended: if a required column is absent the run fails before any   *)
(* card is composed; when the default photo is valid and the output        *)
(* directory exists or can be created, the failure is a ValueError that    *)
(* lists every missing column, in the order first, last, photo.            *)
C10_MissingColumnsValueErrorAfterOtherChecks ==
    ExpectedMissing # <<>> =>
        /\ pc \in BeforeRun
        /\ (pc = "raised" /\ DefaultPhotoValid /\ dir # "uncreatable") =>
               exc.type = "ValueError" /\ exc.cols = ExpectedMissing
        /\ NothingComposed

C10_Witness ==
    /\ pc = "raised"
    /\ exc.type = "ValueError"
    /\ exc.cols = <<first_name_col, photo_path_col>>


(* C11: every call of make_pdf ends in one of two ways: it composes every  *)
(* batch, a card for every record, and returns the stats; or it fails on a *)
(* precondition before any card is composed.  No other end is reachable,   *)
(* for any record count, 0 included.                                       *)
C11_CompletesOrFailsPrecondition ==
    (fn = "make_pdf" /\ pc \in {"returned", "raised"}) =>
        \/ /\ pc = "returned"
           /\ i = ExpectedBatches
           /\ Len(Composed) = NumRecords
           /\ result = stats
        \/ /\ pc = "raised"
           /\ exc.type \in {"OSError", "ValueError"}
           /\ NothingComposed

(* C12: no photo condition of a record aborts the run: whatever the photo  *)
(* cells of the records are, no call of _make_card ends with an exception; *)
(* the card is completed and counted and the next record is processed.     *)
C12_PhotoNeverAbortsRun ==
    card # NoCard => exc = NoExc

----------------------------------------------------------------------------
(* The sanitizer as the specification words it.                            *)

\* a text without its leading and trailing whitespace
Trimmed(text) ==
    LET inked == {k \in 1..Len(text) : ~IsSpace(text[k])}
    IN  IF inked = {} THEN <<>>
        ELSE SubSeq(text, CHOOSE a \in inked : \A b \in inked : a <= b,
                          CHOOSE a \in inked : \A b \in inked : a >= b)

\* a text with each of its characters that is in chars prefixed by a backslash
RECURSIVE Prefixed(_, _)
Prefixed(text, chars) ==
    IF text = <<>> THEN <<>>
    ELSE (IF Head(text) \in chars THEN <<"\\", Head(text)>> ELSE <<Head(text)>>)
         \o Prefixed(Tail(text), chars)

\* the sanitized identifier of a name: ~ ^ \ deleted, then space # $ % _ { }
\* prefixed by a backslash
SpecIdentifier(name) ==
    Prefixed(SelectSeq(name, LAMBDA ch : ch \notin {"~", "^", "\\"}),
             {" ", "#", "$", "%", "_", "{", "}"})

\* the sanitized value of a value: every $ prefixed by a backslash
SpecValue(v) == Prefixed(v, {"$"})

\* how often the character ch is in a text
Count(text, ch) == Cardinality({k \in 1..Len(text) : text[k] = ch})

\* a cell as text: a null cell is the empty text
CellText(v) == IF v = NaN THEN <<>> ELSE v

\* the custom column of the DataFrame given to the sanitizer and of its result
CustomIn == people_data.columns[2]
CustomOut == df.columns[2]

(* C13, as stated: the sanitized identifier of a custom column is its name *)
(* with every ~ ^ \ deleted and then every space # $ % _ { } prefixed by a *)
(* backslash.                                                              *)
C13_IdentifierDeletedThenPrefixed ==
    pc = "sanitized" => CustomOut = SpecIdentifier(CustomIn)

(* C13, amended: the sanitized identifier of a custom column is its name,  *)
(* first trimmed of leading and trailing whitespace, with every ~ ^ \      *)
(* deleted and then every space # $ % _ { } prefixed by a backslash;       *)
(* Hobby #1, Salary {($)} and Inte\rests become Hobby\ \#1,                *)
(* Salary\ \{(\$)\} and Interests.                                         *)
C13_TrimmedIdentifierDeletedThenPrefixed ==
    pc = "sanitized" =>
        /\ CustomOut = SpecIdentifier(Trimmed(CustomIn))
        /\ CustomIn = HobbyCol =>
             CustomOut = <<"H", "o", "b", "b", "y", "\\", " ", "\\", "#", "1">>
        /\ CustomIn = SalaryCol =>
             CustomOut = <<"S", "a", "l", "a", "r", "y", "\\", " ", "\\", "{", "(",
                           "\\", "$", ")", "\\", "}">>
        /\ CustomIn = InterestsCol =>
             CustomOut = <<"I", "n", "t", "e", "r", "e", "s", "t", "s">>

C13_Witness ==
    /\ pc = "sanitized"
    /\ CustomIn = SalaryCol
    /\ Len(CustomOut) = 16
    /\ Count(CustomOut, "\\") = 4

(* C14: the sanitizer strips the leading and trailing whitespace of a      *)
(* custom column name: the new name holds the spaces of the trimmed name   *)
(* only,  Hometown  with a space on either side becomes Hometown, and a    *)
(* name that had such whitespace is no longer a column; the names of the   *)
(* three distinguished columns keep their surrounding whitespace.          *)
C14_CustomNamesStripped ==
    pc = "sanitized" =>
        /\ Count(CustomOut, " ") = Count(Trimmed(CustomIn), " ")
        /\ CustomIn = HometownCol => CustomOut = <<"H", "o", "m", "e", "t", "o", "w", "n">>
        /\ Trimmed(CustomIn) # CustomIn => CustomIn \notin Range(df.columns)
        /\ first_name_col \in Range(df.columns)
        /\ photo_path_col \in Range(df.columns)
        /\ Trimmed(first_name_col) \notin Range(df.columns)
        /\ Trimmed(photo_path_col) \notin Range(df.columns)

C14_Witness ==
    /\ pc = "sanitized"
    /\ CustomIn = HometownCol
    /\ CustomOut = Trimmed(HometownCol)
    /\ Head(df.columns[1]) = " "

(* C15: every value of a custom column is sanitized to the trimmed value   *)
(* with every $ prefixed by one backslash and no other character changed;  *)
(* Earns $$$ becomes Earns \$\$\$.                                         *)
C15_ValueDollarsPrefixed ==
    pc = "sanitized" =>
        LET v == CellText(people_data.rows[1][CustomIn])
            out == df.rows[1][CustomOut]
        IN  /\ out = SpecValue(Trimmed(v))
            /\ v = EarnsValue =>
                 out = <<"E", "a", "r", "n", "s", " ", "\\", "$", "\\", "$", "\\", "$">>

C15_Witness ==
    /\ pc = "sanitized"
    /\ people_data.rows[1][CustomIn] = EarnsValue
    /\ Count(df.rows[1][CustomOut], "\\") = 3

(* C16: the sanitizer leaves the three distinguished columns and the full  *)
(* name unescaped: their names are unchanged, and their values are the     *)
(* trimmed text of the cells (the full name, the trimmed first and last    *)
(* names joined by a space and trimmed) whatever $ # _ ^ they hold.        *)
C16_DistinguishedColumnsUnescaped ==
    pc = "sanitized" =>
        /\ df.columns[1] = first_name_col
        /\ df.columns[3] = last_name_col
        /\ df.columns[4] = photo_path_col
        /\ df.columns[5] = FullNameCol
        /\ Len(df.columns) = 5
        /\ LET in(c) == CellText(people_data.rows[1][c])
               out(c) == df.rows[1][c]
           IN  /\ \A c \in {first_name_col, last_name_col, photo_path_col} :
                    /\ out(c) = Trimmed(in(c))
                    /\ \A ch \in ValueChars \ {" "} : Count(out(c), ch) = Count(in(c), ch)
               /\ out(FullNameCol) =
                      Trimmed(Trimmed(in(first_name_col)) \o <<" ">>
                              \o Trimmed(in(last_name_col)))
               /\ Count(out(FullNameCol), "\\") =
                      Count(in(first_name_col), "\\") + Count(in(last_name_col), "\\")

C16_Witness ==
    /\ pc = "sanitized"
    /\ people_data.rows[1][first_name_col] = <<"$", "#", "^">>
    /\ df.rows[1][photo_path_col] = <<"$", "#", "^">>
    /\ df.rows[1][FullNameCol] = <<"$", "#", "^", " ", "D", "#", "_">>
    /\ df.rows[1][CustomOut] = <<"\\", "$", "#", "^">>

(* C17: value escaping is not idempotent: sanitizing an already sanitized  *)
(* custom value prefixes each of its $ again, \$ becomes \\$, so the       *)
(* result differs from the sanitized value for every value that holds a $. *)
C17_EscapingNotIdempotent ==
    [][(pc = "sanitized" /\ pc' = "resanitized") =>
           LET once == df.rows[1][CustomOut]
               twice == df'.rows[1][df'.columns[2]]
           IN  /\ twice = SpecValue(once)
               /\ Count(once, "$") > 0 => twice # once
               /\ Count(twice, "\\") = Count(once, "\\") + Count(once, "$")
               /\ once = <<"\\", "$">> => twice = <<"\\", "\\", "$">>]_vars

C17_Witness ==
    /\ pc = "resanitized"
    /\ people_data.rows[1][people_data.columns[2]] = <<"\\", "$">>
    /\ df.rows[1][df.columns[2]] = <<"\\", "\\", "$">>

\* the lines of the description of a record of the dataset: one for each
\* custom attribute whose trimmed value is not blank, in column order
RECURSIVE SpecLines(_, _)
SpecLines(row, cols) ==
    IF cols = <<>> THEN <<>>
    ELSE LET c == Head(cols)
             v == Trimmed(CellText(row[c]))
         IN  (IF c \notin {first_name_col, last_name_col, photo_path_col, FullNameCol}
                 /\ v # <<>>
              THEN << <<"$">> \o SpecIdentifier(Trimmed(c)) \o <<":", "$", " ">>
                      \o SpecValue(v) >>
              ELSE <<>>)
             \o SpecLines(row, Tail(cols))

\* lines with one line break between each two
RECURSIVE SpecJoined(_)
SpecJoined(lines) ==
    IF lines = <<>> THEN <<>>
    ELSE Head(lines)
         \o (IF Tail(lines) = <<>> THEN <<>> ELSE <<"\n">> \o SpecJoined(Tail(lines)))

\* the description the specification gives record r of the dataset
SpecDescription(r) == SpecJoined(SpecLines(people_data.rows[r], people_data.columns))

\* the custom attributes of record r whose trimmed value is not blank
NonBlankAttributes(r) ==
    {k \in 1..Len(people_data.columns) :
        /\ people_data.columns[k] \notin
               {first_name_col, last_name_col, photo_path_col, FullNameCol}
        /\ Trimmed(CellText(people_data.rows[r][people_data.columns[k]])) # <<>>}

(* C18: the description of every record is its custom attributes whose     *)
(* trimmed value is not blank, in column order, each as                    *)
(* $<sanitized identifier>:$ <sanitized value>, joined by one line break,  *)
(* with no leading or trailing line break; a blank attribute gives no line *)
(* and every other custom attribute gives exactly one.                     *)
C18_DescriptionOfNonBlankAttributes ==
    Formatted =>
        /\ pc \in {"photo", "draw", "count"} =>
             /\ card.desc = SpecDescription(card.row)
             /\ NumLines(card.desc) = Cardinality(NonBlankAttributes(card.row))
        /\ LET done == Composed
           IN  \A k \in 1..Len(done) :
                 /\ done[k].desc = SpecDescription(done[k].row)
                 /\ NumLines(done[k].desc) = Cardinality(NonBlankAttributes(done[k].row))
                 /\ done[k].desc # <<>> =>
                      Head(done[k].desc) # "\n" /\ done[k].desc[Len(done[k].desc)] # "\n"

C18_Witness ==
    /\ pc = "returned"
    /\ fn = "make_pdf"
    /\ NumRecords = 7
    /\ LET done == Composed
       IN  /\ Len(done) = 7
           /\ NumLines(done[3].desc) = 3
           /\ done[4].desc = <<>>
           /\ NumLines(done[7].desc) = 4
           /\ Count(done[7].desc, "\\") = 4

RECURSIVE Pow(_, _)
Pow(b, k) == IF k = 0 THEN 1 ELSE b * Pow(b, k - 1)

\* desc_font_size * 0.95^k, 0.95 being 19/20
FontAtAttempt(k) == Frac(desc_font_size * Pow(19, k), Pow(20, k))

(* C19: within one card the font size of the k-th layout attempt of the    *)
(* description (k = 0, 1, 2, ...) is the configured desc_font_size times   *)
(* 0.95^k; the reduction is local to the card: the first attempt of every  *)
(* card uses the configured desc_font_size whatever earlier cards shrank.  *)
C19_FontSizeGeometricPerCard ==
    /\ pc \in {"name", "desc", "photo", "draw", "count"} =>
           card.desc_font_size = FontAtAttempt(card.attempt)
    /\ pc = "name" => card.attempt = 0 /\ card.desc_font_size = <<desc_font_size, 1>>
    /\ \A k \in 1..Len(fig) :
           \E a \in 0..MaxShrink : fig[k].desc_font_size = FontAtAttempt(a)

C19_Witness ==
    /\ pc = "desc"
    /\ card.row = 8
    /\ card.attempt = 0
    /\ card.desc_font_size = <<16, 1>>
    /\ Len(fig) = 3
    /\ fig[3].row = 7
    /\ fig[3].desc_font_size = <<361, 25>>

(* C20: the shrink loop of _make_card terminates for every card: for every *)
(* record and every setting of the layout arguments, a description origin  *)
(* at or below the 0.02 floor included, one of the boundedly many attempts *)
(* that remain clears the floor, and the loop exits.                       *)
C20_ShrinkLoopTerminates ==
    pc = "desc" =>
        \E k \in card.attempt..MaxShrink :
            DescFits(card.desc_y1_coord,
                     DescriptionString(df.rows[card.row], df.columns),
                     FontAtAttempt(k))

----------------------------------------------------------------------------
\* the number of cards a preview of the dataset has: 4 for more than three
\* people, the number of people for fewer than four
PreviewCount == IF NumRecords > 3 THEN 4 ELSE NumRecords

(* C21: make_pdf_preview composes cards only for the first min(n, 4)       *)
(* records, in input order, and returns number_of_cards_created =          *)
(* number_of_cards_to_create = min(n, 4).                                  *)
C21_PreviewComposesFirstFour ==
    (fn = "make_pdf_preview" /\ pc = "returned") =>
        /\ result.number_of_cards_created = PreviewCount
        /\ result.number_of_cards_to_create = PreviewCount
        /\ Len(shown) = PreviewCount
        /\ \A k \in 1..Len(shown) :
               shown[k].row = k /\ shown[k].name = FullName(k)

C21_Witness ==
    /\ fn = "make_pdf_preview"
    /\ pc = "returned"
    /\ NumRecords = 3
    /\ result.number_of_cards_created = 3
    /\ Len(shown) = 3
    /\ shown[3].row = 3

----------------------------------------------------------------------------
\* the lower edge of the box of a description laid out from y1 at a font size,
\* and the 0.02 floor, both in thousandths of the card height times the
\* denominator of the font size
LowerEdge(text, y1, font) == y1 * font[2] - NumLines(text) * 13 * font[1]
Floor(font) == 20 * font[2]

\* the description of the card being composed
CardDescription == DescriptionString(df.rows[card.row], df.columns)

\* every attempt before the current one left the lower edge below the floor
EarlierAttemptsBelowFloor ==
    \A k \in 0..(card.attempt - 1) :
        LowerEdge(CardDescription, card.desc_y1_coord, FontAtAttempt(k))
            < Floor(FontAtAttempt(k))

----------------------------------------------------------------------------
\* the lower edge of the box of a name laid out once from name_y_coord at the
\* fixed name_font_size
NameLowerEdge(name) == name_y_coord - NumLines(name) * name_font_size * 2

(* C23: in _make_card the name is laid out once at the fixed               *)
(* name_font_size, and the origin y of the description equals the lower    *)
(* edge of the name box minus desc_padding; the origin is the same in      *)
(* every iteration of the shrink loop of that card.                        *)
C23_DescriptionOriginBelowName ==
    pc \in {"desc", "photo", "draw", "count"} =>
        /\ card.name = FullName(card.row)
        /\ card.desc_y1_coord = NameLowerEdge(FullName(card.row)) - desc_padding

C23_Witness ==
    /\ pc = "desc"
    /\ card.attempt = 3
    /\ NumLines(card.name) = 2
    /\ card.desc_y1_coord = 700
    /\ desc_padding = 50

----------------------------------------------------------------------------
\* the positions of the status lines of records in the log
StatusLines == {k \in 1..Len(log) : log[k].status # ""}

(* C24: each processed record emits exactly one status line, after its     *)
(* photo outcome is resolved and before cards_created is incremented, of   *)
(* the form [created+1/total] SUCCESS|WARNING : full name - message; the   *)
(* k-th processed record's line carries index k, the indices run 1..total  *)
(* without gap or repeat, and total is number_of_cards_to_create.          *)
C24_OneStatusLinePerRecord ==
    Formatted =>
        /\ StatusLines = 1..Cardinality(StatusLines)
        /\ Cardinality(StatusLines) =
               stats.number_of_cards_created + (IF pc = "count" THEN 1 ELSE 0)
        /\ Cardinality(StatusLines) <= stats.number_of_cards_to_create
        /\ \A k \in StatusLines :
               /\ log[k].level = "INFO"
               /\ log[k].progress = <<k, stats.number_of_cards_to_create>>
               /\ log[k].status \in {"SUCCESS", "WARNING"}
               /\ log[k].name = FullName(k)
               /\ log[k].msg = TableOutcome(PhotoCell(k)).msg
        /\ pc = "count" =>
               /\ card.row = Len(log)
               /\ log[Len(log)].status = card.person_status
               /\ log[Len(log)].progress[1] = stats.number_of_cards_created + 1
        /\ pc = "returned" =>
               Cardinality(StatusLines) = stats.number_of_cards_to_create

C24_Witness ==
    /\ pc = "count"
    /\ stats.number_of_cards_created = 2
    /\ stats.number_of_cards_to_create = 9
    /\ Len(log) = 3
    /\ log[3].progress = <<3, 9>>
    /\ log[3].status = "WARNING"
    /\ log[1].status = "SUCCESS"

----------------------------------------------------------------------------
\* page k has been written by this run
PageWritten(k) == PageName(k) \in PagesOfRun

\* a call of _make_card is under way
InCard == pc \in {"name", "desc", "photo", "draw", "count"}

(* C25: processing is strictly sequential: the card of a record (name,     *)
(* description, photo, status line, counter increment) is completed before *)
(* the card of the next record begins, and the artifact of page i is       *)
(* written only after all of its cards are complete and before any card of *)
(* page i+1 is started.                                                    *)
C25_StrictlySequential ==
    Formatted =>
        /\ InCard =>
               /\ card # NoCard
               /\ stats.number_of_cards_created = card.row - 1
               /\ Len(Composed) = card.row - (IF pc = "count" THEN 0 ELSE 1)
               /\ Cardinality(StatusLines) = Len(Composed)
               /\ fn = "make_pdf" =>
                      \A k \in 1..ExpectedBatches :
                          PageWritten(k) <=> k <= (card.row - 1) \div 4
        /\ fn = "make_pdf" =>
               \A k \in 1..ExpectedBatches :
                   PageWritten(k) =>
                       LET cards == files[PageName(k)].cards
                       IN  /\ Len(cards) = IF 4 * k <= NumRecords THEN 4
                                           ELSE NumRecords - 4 * (k - 1)
                           /\ \A j \in 1..Len(cards) : cards[j].row = 4 * (k - 1) + j
                           /\ stats.number_of_cards_created >= 4 * (k - 1) + Len(cards)
        /\ pc = "savefig" =>
               /\ card = NoCard
               /\ fig # <<>>
               /\ stats.number_of_cards_created = 4 * i + Len(fig)
               /\ \A k \in 1..ExpectedBatches : PageWritten(k) <=> k <= i

C25_Witness ==
    /\ fn = "make_pdf"
    /\ pc = "name"
    /\ card.row = 5
    /\ stats.number_of_cards_created = 4
    /\ PageWritten(1)
    /\ ~PageWritten(2)
    /\ Len(files[PageName(1)].cards) = 4
    /\ NumRecords = 9

----------------------------------------------------------------------------
\* a text ends with a whitespace character
EndsWithSpace(text) == text # <<>> /\ IsSpace(text[Len(text)])

----------------------------------------------------------------------------
\* the run is between two cards: no call of _make_card is under way
BetweenCards == Formatted /\ card = NoCard

\* the records processed so far whose photo was missing or unreadable
ProcessedWarningRows ==
    {r \in 1..stats.number_of_cards_created : IsWarningRow(r)}

(* C27: at every point between two cards of a run the length of            *)
(* people_with_photo_warnings is at most number_of_cards_created and is    *)
(* the number of processed records whose photo was missing or unreadable;  *)
(* entries are only ever appended, never removed or reordered.             *)
C27_WarningsBoundedAndAppendOnly ==
    /\ [](BetweenCards =>
            /\ Len(stats.people_with_photo_warnings) <= stats.number_of_cards_created
            /\ Len(stats.people_with_photo_warnings) = Cardinality(ProcessedWarningRows))
    /\ [][\/ stats'.people_with_photo_warnings = stats.people_with_photo_warnings
          \/ \E name \in {FullName(r) : r \in 1..NumRecords} :
                 stats'.people_with_photo_warnings =
                     Append(stats.people_with_photo_warnings, name)]_vars

C27_Witness ==
    /\ BetweenCards
    /\ pc = "rows"
    /\ stats.number_of_cards_created = 3
    /\ Len(stats.people_with_photo_warnings) = 3
    /\ NumRecords = 4

----------------------------------------------------------------------------
(* C28: make_pdf runs its fatal checks in a fixed order: default photo     *)
(* exists, default photo readable, output directory exists or is created,  *)
(* required columns present.  When the default photo is invalid and        *)
(* required columns are missing too, the error raised is the OSError of    *)
(* the default photo and the output directory is not created; when only    *)
(* columns are missing, the ValueError is raised after the output          *)
(* directory has been created.                                             *)
C28_FatalChecksInOrder ==
    /\ []((fn = "make_pdf" /\ pc = "raised" /\ ExpectedMissing # <<>>) =>
            /\ ~PathExists(path_to_default_photo) =>
                   /\ exc.type = "OSError"
                   /\ exc.msg = "No photo exists at the specified default photo path"
            /\ (PathExists(path_to_default_photo) /\ ~ImageOpens(path_to_default_photo)) =>
                   /\ exc.type = "OSError"
                   /\ exc.msg = "Could not read the default photo"
            /\ (DefaultPhotoValid /\ dir = "uncreatable") =>
                   /\ exc.type = "OSError"
                   /\ exc.msg = "Failed to create directory"
            /\ (DefaultPhotoValid /\ dir # "uncreatable") =>
                   /\ exc.type = "ValueError"
                   /\ exc.cols = ExpectedMissing
                   /\ dir \in {"present", "unwritable"})
    /\ [][/\ (fn = "make_pdf" /\ ~DefaultPhotoValid) => dir' = dir
          /\ (dir = "absent" /\ dir' # "absent") =>
                 dir' = "present" /\ pc = "make_dir" /\ exc' = NoExc]_vars

C28_Witness ==
    /\ fn = "make_pdf"
    /\ pc = "raised"
    /\ exc.type = "ValueError"
    /\ exc.cols = <<last_name_col>>
    /\ dir = "present"
    /\ files = NoFiles

----------------------------------------------------------------------------
(* C29: the log handlers a run attaches are always detached again: for     *)
(* every invocation of make_pdf or make_pdf_preview, whether it returns,   *)
(* fails a precondition, or raises while composing cards or assembling the *)
(* document, the handler set of the module logger after the call equals    *)
(* the handler set before the call.                                        *)
C29_HandlersDetachedAfterCall ==
    pc \in {"returned", "raised"} => handlers = {}

----------------------------------------------------------------------------
\* the input dataset has a column literally named Full Name
HasFullNameColumn == FullNameCol \in Range(people_data.columns)

\* a description has a line for the attribute called ident
HasLineFor(desc, ident) ==
    LET label == <<"$">> \o ident \o <<":", "$">>
    IN  \E p \in 1..Len(desc) :
            /\ p + Len(label) - 1 <= Len(desc)
            /\ SubSeq(desc, p, p + Len(label) - 1) = label

\* the derived full name of record r of the input dataset
DerivedFullName(r) ==
    Trimmed(Trimmed(CellText(people_data.rows[r][first_name_col])) \o <<" ">>
            \o Trimmed(CellText(people_data.rows[r][last_name_col])))

====
